---- MODULE Spec2Model ----
(***************************************************************************)
(* Forcepoint XML Parser V2 (app.py): the name sanitizer, the object       *)
(* extractor's use of the module-level name map, and the FortiGate push    *)
(* path (browser-side doPush, server-side fg_connect / fg_disconnect /     *)
(* fg_push); further the extractor served alone (V2, and the group loops   *)
(* of V1.1), the tabulator's tag summary (parse_xml) and the push report   *)
(* of the browser (doPush, openReport, setFilter); and extraction runs     *)
(* served one after another, the row flattener (flatten_element) and       *)
(* connect requests that name a second FortiGate.                          *)
(*                                                                         *)
(* Strings are sequences of one-character strings, so that strip, re.sub   *)
(* and slicing are computed character by character.                        *)
(***************************************************************************)
EXTENDS Integers, Sequences, FiniteSets, TLC

\* ---------------------------------------------------------------- bounds
\* longest short input string handed to sanitize_name
MaxLen == 3

\* most elements in a document handed to extract_objects
MaxDocLen == 2

\* most records in one fg_push request
MaxItems == 2

\* most records in one category of the objects a doPush run pushes
MaxRunItems == 1
\* extraction runs served one after the other
MaxRuns == 2

\* ------------------------------------------------------ program constants
\* sanitize_name(orig, max_len=79)
MaxNameLen == 79

VARIABLES
    \* sanitizer harness: the argument, the result, the result of a second call
    sanPc, sanIn, sanOut, sanOut2,
    \* the module-level name map: _name_map names dict object dicts[name_map]
    name_map, dicts,
    \* extract_objects calls in progress: each call's document and locals
    docs, ext,
    \* server: the global _fg, and the fg_push call in progress
    fg, srv,
    \* browser: the doPush run, its fetch in flight and the response to it
    cli, req, resp,
    \* history: connect/disconnect so far, the remote operations of the
    \* current request, the remote store's content for the request's endpoint,
    \* the category of the latest remote operation of the doPush run
    hist, ops, rem, lastOpCat,
    \* one extract_objects call served alone: the uploaded document, the
    \* call's position and locals, the objects it returns
    xml, xcall, objects,
    \* one parse_xml call: the element tree, and the summary it returns
    tree, tab,
    \* browser: the report of the latest push run, the report filter, and the
    \* doPush run that fills the report
    pushReport, rptFilter, rpt

sanVars == <<sanPc, sanIn, sanOut, sanOut2>>
mapVars == <<name_map, dicts>>
extVars == <<docs, ext>>
pushVars == <<fg, srv, cli, req, resp, hist, ops, rem, lastOpCat>>
seqVars == <<xml, xcall, objects>>
tabVars == <<tree, tab>>
rptVars == <<pushReport, rptFilter, rpt>>
vars == <<sanPc, sanIn, sanOut, sanOut2, name_map, dicts, docs, ext,
          fg, srv, cli, req, resp, hist, ops, rem, lastOpCat,
          xml, xcall, objects, tree, tab, pushReport, rptFilter, rpt>>

\* ------------------------------------------------------------ characters
\* One representative per class of character the sanitizer distinguishes.
\* "U+00E9" stands for the letter e-acute and "U+0663" for the Arabic-Indic
\* digit three: one character each, outside ASCII.
AsciiLetters ==
    {"a", "b", "c", "d", "e", "f", "g", "h", "i", "j", "k", "l", "m",
     "n", "o", "p", "q", "r", "s", "t", "u", "v", "w", "x", "y", "z",
     "A", "B", "C", "D", "E", "F", "G", "H", "I", "J", "K", "L", "M",
     "N", "O", "P", "Q", "R", "S", "T", "U", "V", "W", "X", "Y", "Z"}
AsciiDigits == {"0", "1", "2", "3", "4", "5", "6", "7", "8", "9"}
NonAsciiWord == {"U+00E9", "U+0663"}
Whitespace == {" "}
OtherChars == {"#"}

\* Python 3 str pattern \w: Unicode letters and digits, and the underscore
IsWordChar(c) == c \in AsciiLetters \cup AsciiDigits \cup NonAsciiWord \cup {"_"}

\* the character set the target grammar allows: a-z A-Z 0-9 - _ .
IsGrammarChar(c) == c \in AsciiLetters \cup AsciiDigits \cup {"-", "_", "."}

\* ------------------------------------------------------- string helpers
RECURSIVE LStripSet(_, _)
LStripSet(s, C) ==
    IF s # <<>> /\ Head(s) \in C THEN LStripSet(Tail(s), C) ELSE s

RECURSIVE RStripSet(_, _)
RStripSet(s, C) ==
    IF s # <<>> /\ s[Len(s)] \in C
    THEN RStripSet(SubSeq(s, 1, Len(s) - 1), C)
    ELSE s

\* str.strip(): leading and trailing whitespace removed
Strip(s) == RStripSet(LStripSet(s, Whitespace), Whitespace)

\* re.sub(r'[^\w\-\.]', '_', s)
ReplaceIllegal(s) ==
    [i \in 1..Len(s) |->
        IF IsWordChar(s[i]) \/ s[i] \in {"-", "."} THEN s[i] ELSE "_"]

\* re.sub(r'_+', '_', s)
\* every run of underscores becomes one: a character is kept unless it is
\* an underscore that follows an underscore
NotRepeatedUnderscore(p) == ~(p[1] = "_" /\ p[2] = "_")
CollapseUnderscores(s) ==
    LET withPrev == [i \in 1..Len(s) |-> <<s[i], IF i = 1 THEN "" ELSE s[i - 1]>>]
        kept == SelectSeq(withPrev, NotRepeatedUnderscore)
    IN [i \in 1..Len(kept) |-> kept[i][1]]

\* s.strip('_').rstrip('.')
StripEnds(s) == RStripSet(RStripSet(LStripSet(s, {"_"}), {"_"}), {"."})

\* s or 'obj'
OrObj(s) == IF s = <<>> THEN <<"o", "b", "j">> ELSE s

\* s[:max_len]
Truncate(s, n) == SubSeq(s, 1, IF Len(s) < n THEN Len(s) ELSE n)

\* the value sanitize_name returns
sanitize_name(orig, max_len) ==
    Truncate(OrObj(StripEnds(CollapseUnderscores(ReplaceIllegal(Strip(orig))))),
             max_len)

\* the dict sanitize_name leaves behind: if s != orig: _name_map[orig] = s
DictSet(d, k, v) == [x \in (DOMAIN d) \cup {k} |-> IF x = k THEN v ELSE d[x]]
DictGetDefaultOnly(d, k, default) == default

\* d.get(k, default)
DictGet(d, k, default) == IF k \in DOMAIN d THEN d[k] ELSE default
EmptyDict == [x \in {} |-> <<>>]

sanitize_name_mapAlways(d, orig) == DictSet(d, orig, sanitize_name(orig, MaxNameLen))

\* if s != orig: _name_map[orig] = s
sanitize_name_map(d, orig) ==
    LET s == sanitize_name(orig, MaxNameLen)
    IN IF s # orig THEN DictSet(d, orig, s) ELSE d

\* ------------------------------------------------------ sanitizer inputs
SanAlphabet == {"a", "_", ".", "-", " ", "#", "U+00E9"}

RECURSIVE StringsUpTo(_, _)
StringsUpTo(A, n) ==
    IF n = 0 THEN {<<>>}
    ELSE LET S == StringsUpTo(A, n - 1)
         IN S \cup {<<c>> \o t : c \in A, t \in {x \in S : Len(x) = n - 1}}

ShortStrings == StringsUpTo(SanAlphabet, MaxLen)

Pad(k) == [i \in 1..k |-> "a"]

\* short names, and names that reach past the cut at max_len
SanInputs == ShortStrings \cup {Pad(MaxNameLen - 1) \o t : t \in ShortStrings}

\* ------------------------------------------- parts not in use in a run
\* the module as imported: _name_map = {}
MapInit == name_map = 1 /\ dicts = <<EmptyDict>>
SanIdle == sanPc = "off" /\ sanIn = <<>> /\ sanOut = <<>> /\ sanOut2 = <<>>
ExtIdle == docs = <<>> /\ ext = <<>>
SeqIdle == xml = <<>> /\ xcall = <<>> /\ objects = <<>>
TabIdle == tree = <<>> /\ tab = <<>>
\* let pushReport = null; let rptFilter = null
RptIdle == pushReport = <<>> /\ rptFilter = "null" /\ rpt = <<>>

\* ------------------------------------------------- push: data and helpers
\* _fg = None
None == "None"
\* the FortiGates a client may be connected to (FGClient objects)
Stores == {"fw1"}

OBJ_ORDER ==
    <<"hosts", "networks", "addr_ranges", "net_groups", "services", "service_groups">>
Cats == {OBJ_ORDER[n] : n \in 1..Len(OBJ_ORDER)}
CatIndex(c) == CHOOSE n \in 1..Len(OBJ_ORDER) : OBJ_ORDER[n] = c

EP == [hosts |-> "firewall/address",
       networks |-> "firewall/address",
       addr_ranges |-> "firewall/address",
       net_groups |-> "firewall/addrgrp",
       services |-> "firewall.service/custom",
       service_groups |-> "firewall.service/group"]

GroupTypes == {"net_groups", "service_groups"}

\* if code in (200, 201, 204)
SuccessCodes == {200, 201, 204}
\* what a remote call can answer: a status code, or Raised for an exception
\* of the transport (no status)
Raised == 0
RespCodes == {200, 201, 500}

\* records as extract_objects emits them (name: canonical, possibly empty)
PlainItems ==
    {[name |-> <<"a">>, orig_name |-> <<"a", "#">>, skipped_refs |-> <<>>],
     [name |-> <<"b">>, orig_name |-> <<"b">>, skipped_refs |-> <<>>],
     [name |-> <<>>, orig_name |-> <<>>, skipped_refs |-> <<>>]}
GroupItems ==
    {[name |-> <<"a">>, orig_name |-> <<"a", "#">>, skipped_refs |-> << <<"x">>, <<"y">> >>],
     [name |-> <<" ">>, orig_name |-> <<>>, skipped_refs |-> << <<"x">> >>]}
ItemsOf(c) == IF c \in GroupTypes THEN GroupItems ELSE PlainItems
\* the records of a category in the objects a doPush run pushes
RunItemsOf(c) ==
    IF c \in GroupTypes
    THEN {[name |-> <<"a">>, orig_name |-> <<"a", "#">>, skipped_refs |-> << <<"x">> >>]}
    ELSE {[name |-> <<"a">>, orig_name |-> <<"a", "#">>, skipped_refs |-> <<>>]}
\* one category per branch of fg_push's payload construction
BranchCats == {"hosts", "net_groups", "services", "service_groups"}
\* names an endpoint of the remote store may hold
RemoteNames == {<<"a">>}

NoReq == [obj_type |-> "", items |-> <<>>, taken |-> FALSE]
NoResp == [kind |-> "none", status |-> 0, error |-> "", results |-> <<>>]
ErrorResp(msg, status) ==
    [kind |-> "error", status |-> status, error |-> msg, results |-> <<>>]
ResultsResp(results) ==
    [kind |-> "results", status |-> 200, error |-> "", results |-> results]

\* accepted: the client _fg named when the request passed `if not _fg`
SrvIdle ==
    [pc |-> "idle", obj_type |-> "", items |-> <<>>, i |-> 0,
     existing |-> {}, results |-> <<>>, accepted |-> None]
CliIdle == [pc |-> "idle", sel |-> <<>>, k |-> 0]
NoRem == [store |-> None, names |-> {}, listed |-> {}]

\* entries of the results list
SkipEmpty ==
    [status |-> "skip", name |-> <<>>, orig |-> <<>>, code |-> 0,
     msg |-> "Empty name", group |-> <<>>, http |-> 0]
RefSkip(ref, name) ==
    [status |-> "skip", name |-> ref, orig |-> ref, code |-> 0,
     msg |-> "Not in XML", group |-> name, http |-> 0]
OkResult(name, orig, code) ==
    [status |-> "ok", name |-> name, orig |-> orig, code |-> code,
     msg |-> "", group |-> <<>>, http |-> 0]
\* msg: f'HTTP {code}: {txt[:150]}', or str(e)[:150] of the exception
ErrResult(name, orig, msg, code) ==
    [status |-> "err", name |-> name, orig |-> orig, code |-> 0,
     msg |-> msg, group |-> <<>>, http |-> code]

\* for ref in item.get('skipped_refs', []): results.append({... skip ...})
RefSkips(obj_type, item, name) ==
    IF obj_type \in GroupTypes
    THEN [j \in 1..Len(item.skipped_refs) |-> RefSkip(item.skipped_refs[j], name)]
    ELSE <<>>

\* FGClient.upsert: put if name in existing else post
upsert(name, existing) == IF name \in existing THEN "PUT" ELSE "POST"

\* fg_push: if not _fg
NotConnected(f) == f = None

\* fg_connect: the value of _fg after an attempt on store s
\* (out: "ok" for status 200, "non200", "raise")
ConnectResult(f, s, out) == IF out = "ok" THEN s ELSE f

DisconnectKeepsClient(f) == f

\* fg_disconnect: the value of _fg afterwards
DisconnectResult(f) == None

\* selectedObjs(): OBJ_ORDER filtered by the cards that are selected
RECURSIVE FilterSeq(_, _)
FilterSeq(s, S) ==
    IF s = <<>> THEN <<>>
    ELSE (IF Head(s) \in S THEN <<Head(s)>> ELSE <<>>) \o FilterSeq(Tail(s), S)
selectedObjsReversed(S) ==
    FilterSeq([n \in 1..Len(OBJ_ORDER) |-> OBJ_ORDER[Len(OBJ_ORDER) + 1 - n]], S)

selectedObjs(S) == FilterSeq(OBJ_ORDER, S)

PushIdle ==
    /\ fg = None
    /\ srv = SrvIdle
    /\ cli = CliIdle
    /\ req = NoReq
    /\ resp = NoResp
    /\ hist = [conn |-> "never", lastFailed |-> FALSE]
    /\ ops = <<>>
    /\ rem = NoRem
    /\ lastOpCat = 0

\* -------------------------------------------------- sanitizer: actions
InitSan ==
    /\ sanPc = "new"
    /\ sanIn \in SanInputs
    /\ sanOut = <<>>
    /\ sanOut2 = <<>>
    /\ MapInit
    /\ SeqIdle /\ TabIdle /\ RptIdle
    /\ ExtIdle
    /\ PushIdle

\* the dict the global _name_map names now; object 1 is the one made at import
CurDict == dicts[name_map]
SetCurDict(d) == [dicts EXCEPT ![name_map] = d]

\* r = sanitize_name(x)
SanCall ==
    /\ sanPc = "new"
    /\ sanOut' = sanitize_name(sanIn, MaxNameLen)
    /\ dicts' = SetCurDict(sanitize_name_map(CurDict, sanIn))
    /\ sanPc' = "once"
    /\ UNCHANGED <<sanIn, sanOut2, name_map, extVars, pushVars, seqVars, tabVars,
                   rptVars>>

\* sanitize_name(r)
SanAgain ==
    /\ sanPc = "once"
    /\ sanOut2' = sanitize_name(sanOut, MaxNameLen)
    /\ dicts' = SetCurDict(sanitize_name_map(CurDict, sanOut))
    /\ sanPc' = "twice"
    /\ UNCHANGED <<sanIn, sanOut, name_map, extVars, pushVars, seqVars, tabVars,
                   rptVars>>

NextSan == SanCall \/ SanAgain

SpecSan == InitSan /\ [][NextSan]_vars

\* C8: sanitize_name is idempotent: sanitize_name(sanitize_name(x)) equals
\* sanitize_name(x) for every input x.
C8_Idempotent == sanPc = "twice" => sanOut2 = sanOut

\* C9: the result of sanitize_name does not begin with an underscore, does
\* not end with an underscore and does not end with a period.
C9_NoEdgeUnderscoreNoTrailingPeriod ==
    sanPc # "new" /\ sanOut # <<>> =>
        /\ Head(sanOut) # "_"
        /\ sanOut[Len(sanOut)] # "_"
        /\ sanOut[Len(sanOut)] # "."

\* C10: the result of sanitize_name has between 1 and 79 characters and every
\* character is an ASCII letter, an ASCII digit, a hyphen, an underscore or a
\* period.
C10_LengthAndCharset ==
    sanPc # "new" =>
        /\ Len(sanOut) >= 1
        /\ Len(sanOut) <= MaxNameLen
        /\ \A i \in 1..Len(sanOut) : IsGrammarChar(sanOut[i])

\* ------------------------------------------------------------ extractor
\* extract_objects on documents whose elements are <host> elements: the
\* loops over the other tags then run zero times.  An element carries its
\* name attribute and the address attribute of its mvia_address child
\* (<<>> when the attribute or the child is missing).
ElemNames == {<<"a", " ", "b">>, <<"c">>, <<>>}
ElemAddrs == {<<"7">>}
HostElems == [tag : {"host"}, name : ElemNames, address : ElemAddrs]

RECURSIVE SeqsUpTo(_, _)
SeqsUpTo(S, n) ==
    IF n = 0 THEN {<<>>}
    ELSE LET R == SeqsUpTo(S, n - 1)
         IN R \cup {<<e>> \o r : e \in S, r \in {x \in R : Len(x) = n - 1}}

Documents == SeqsUpTo(HostElems, MaxDocLen) \ {<<>>}

\* the two request threads of the server that each serve one /parse upload
ExtCalls == {1, 2}

\* pass 1, one element: n = el.attrib.get('name','').strip(); if n: ...
Pass1Names(xml_names, el) ==
    IF Strip(el.name) # <<>> THEN xml_names \cup {Strip(el.name)} ELSE xml_names
Pass1Dict(d, el) ==
    IF Strip(el.name) # <<>> THEN sanitize_name_map(d, Strip(el.name)) ELSE d

\* "255.255.255.255"
Mask32 ==
    <<"2", "5", "5", ".", "2", "5", "5", ".", "2", "5", "5", ".", "2", "5", "5">>

\* hosts loop, one element: the record appended, if any
HostRecord(d, el) ==
    LET ip == Strip(el.address)
        orig == Strip(el.name)
    IN IF ip = <<>> THEN <<>>
       ELSE <<[orig_name |-> orig,
               name |-> DictGet(d, orig, orig),
               subnet |-> ip \o <<" ">> \o Mask32]>>

\* what one call returns when no other call runs: the same steps, in order
RECURSIVE FoldPass1(_, _)
FoldPass1(d, doc) ==
    IF doc = <<>> THEN d ELSE FoldPass1(Pass1Dict(d, Head(doc)), Tail(doc))

RECURSIVE FoldHosts(_, _)
FoldHosts(d, doc) ==
    IF doc = <<>> THEN <<>> ELSE HostRecord(d, Head(doc)) \o FoldHosts(d, Tail(doc))

ExtractAlone(doc) ==
    LET d == FoldPass1(EmptyDict, doc)
    IN [hosts |-> FoldHosts(d, doc), name_map |-> d]

NoResult == [hosts |-> <<>>, name_map |-> EmptyDict]

NewRegistryKeepEntries(ds, cur) == Append(ds, ds[cur])

\* global _name_map; _name_map = {}: a new, empty dict object is made and
\* the global names it from now on (cur is the object it named before)
NewRegistry(ds, cur) == Append(ds, EmptyDict)

InitRace ==
    /\ SanIdle
    /\ MapInit
    /\ SeqIdle /\ TabIdle /\ RptIdle
    /\ PushIdle
    /\ docs \in {dd \in [ExtCalls -> Documents] : dd[1] # dd[2]}
    /\ ext = [t \in ExtCalls |->
                [pc |-> "reset", i |-> 1, xml_names |-> {}, hosts |-> <<>>,
                 ret |-> NoResult]]

\* global _name_map; _name_map = {}
ExtReset(t) ==
    /\ ext[t].pc = "reset"
    /\ dicts' = NewRegistry(dicts, name_map)
    /\ name_map' = Len(dicts) + 1
    /\ ext' = [ext EXCEPT ![t].pc = "pass1", ![t].i = 1]
    /\ UNCHANGED <<sanVars, seqVars, tabVars, rptVars, docs, pushVars>>

\* PASS 1, one element: xml_names.add(n); sanitize_name(n)
ExtPass1(t) ==
    /\ ext[t].pc = "pass1"
    /\ LET doc == docs[t]
           i == ext[t].i
       IN /\ dicts' = SetCurDict(Pass1Dict(CurDict, doc[i]))
          /\ ext' = [ext EXCEPT
                        ![t].xml_names = Pass1Names(@, doc[i]),
                        ![t].i = IF i = Len(doc) THEN 1 ELSE i + 1,
                        ![t].pc = IF i = Len(doc) THEN "hosts" ELSE "pass1"]
    /\ UNCHANGED <<sanVars, seqVars, tabVars, rptVars, name_map, docs, pushVars>>

\* 1. Hosts, one element
ExtHost(t) ==
    /\ ext[t].pc = "hosts"
    /\ LET doc == docs[t]
           i == ext[t].i
       IN ext' = [ext EXCEPT
                     ![t].hosts = @ \o HostRecord(CurDict, doc[i]),
                     ![t].i = IF i = Len(doc) THEN 1 ELSE i + 1,
                     ![t].pc = IF i = Len(doc) THEN "return" ELSE "hosts"]
    /\ UNCHANGED <<sanVars, seqVars, tabVars, rptVars, mapVars, docs, pushVars>>

\* return {"hosts": hosts, ..., "name_map": _name_map}
ExtReturn(t) ==
    /\ ext[t].pc = "return"
    /\ ext' = [ext EXCEPT
                  ![t].ret = [hosts |-> ext[t].hosts, name_map |-> CurDict],
                  ![t].pc = "done"]
    /\ UNCHANGED <<sanVars, seqVars, tabVars, rptVars, mapVars, docs, pushVars>>

NextRace ==
    \E t \in ExtCalls : ExtReset(t) \/ ExtPass1(t) \/ ExtHost(t) \/ ExtReturn(t)

SpecRace == InitRace /\ [][NextRace]_vars

\* C7: concurrent extraction runs cannot interfere: when two extract_objects
\* calls on different documents interleave, each call returns the records and
\* the name mapping it returns when run alone.
C7_CallsDoNotInterfere ==
    \A t \in ExtCalls : ext[t].pc = "done" => ext[t].ret = ExtractAlone(docs[t])

\* ------------------------------------------ extractor: one run after another
\* /parse uploads served one at a time.  docs holds the documents of the runs
\* so far; ext[t] is what run t returned: the records, the dict object its
\* "name_map" entry refers to, and what that object held at the return.
InitRuns ==
    /\ SanIdle
    /\ MapInit
    /\ SeqIdle /\ TabIdle /\ RptIdle
    /\ ExtIdle
    /\ PushIdle

\* one whole extract_objects call on doc: the reset, pass 1, the hosts loop,
\* the return
ExtractRun ==
    /\ Len(docs) < MaxRuns
    /\ \E doc \in Documents :
         LET ds == NewRegistry(dicts, name_map)
             p == Len(ds)
             d == FoldPass1(ds[p], doc)
         IN /\ dicts' = [ds EXCEPT ![p] = d]
            /\ name_map' = p
            /\ docs' = Append(docs, doc)
            /\ ext' = Append(ext, [hosts |-> FoldHosts(d, doc), name_map |-> p,
                                  returned |-> d])
    /\ UNCHANGED <<sanVars, seqVars, tabVars, rptVars, pushVars>>

NextRuns == ExtractRun

SpecRuns == InitRuns /\ [][NextRuns]_vars

\* the original names that occur in a document
NamesIn(doc) == {Strip(doc[i].name) : i \in 1..Len(doc)}

\* C22: the name registry has no cross-run memory: after any sequence of
\* extraction runs served one after the other, the mapping the latest run
\* returned has only original names of that run's document as keys, and the
\* mapping an earlier run returned still holds what it held at its return.
C22_NoCrossRunMemory ==
    /\ (ext # <<>> =>
          DOMAIN dicts[ext[Len(ext)].name_map] \subseteq NamesIn(docs[Len(docs)]))
    /\ \A t \in 1..Len(ext) : dicts[ext[t].name_map] = ext[t].returned

\* C22 witness: a second run on a document without the name the first run
\* recorded has returned; the first mapping still has the key, the second
\* does not
C22_Witness ==
    /\ Len(ext) = 2
    /\ <<"a", " ", "b">> \in DOMAIN dicts[ext[1].name_map]
    /\ <<"a", " ", "b">> \notin NamesIn(docs[2])
    /\ dicts[ext[2].name_map] = EmptyDict
    /\ ext[1].name_map # ext[2].name_map

\* ---------------------------------------------------------- push: server
\* Requests are served in threads (app.run), so fg_connect and fg_disconnect
\* can be served while an fg_push call is between two of its reads of the
\* global _fg.  fg_connect and fg_disconnect touch the global state in one
\* assignment each; fg_push is split at its reads of _fg.
\*
\* hist.conn is "yes" from a successful connection attempt to the next
\* disconnect, "dropped" from a disconnect to the next successful attempt;
\* hist.lastFailed says that the latest connection attempt failed.

Init ==
    /\ SanIdle
    /\ MapInit
    /\ SeqIdle /\ TabIdle /\ RptIdle
    /\ ExtIdle
    /\ PushIdle

\* POST /fg_connect for a store s of SS; out is what client.test() does
Connect(SS) ==
    \E s \in SS, out \in {"ok", "non200", "raise"} :
        /\ fg' = ConnectResult(fg, s, out)
        /\ hist' = IF out = "ok"
                   THEN [conn |-> "yes", lastFailed |-> FALSE]
                   ELSE [hist EXCEPT !.lastFailed = TRUE]
        /\ UNCHANGED <<sanVars, seqVars, tabVars, rptVars, mapVars, extVars, srv, cli, req, resp, ops,
                       rem, lastOpCat>>

fg_connect == Connect(Stores)

\* POST /fg_disconnect
fg_disconnect ==
    /\ fg' = DisconnectResult(fg)
    /\ hist' = [hist EXCEPT !.conn = "dropped"]
    /\ UNCHANGED <<sanVars, seqVars, tabVars, rptVars, mapVars, extVars, srv, cli, req, resp, ops,
                   rem, lastOpCat>>

\* fg_push, up to the listing: if not _fg: return error, 400.  The clients
\* of this model send only the keys of OBJ_ORDER, so EP.get finds ep.
PushCheck ==
    /\ req.obj_type # ""
    /\ ~req.taken
    /\ srv.pc = "idle"
    /\ req' = [req EXCEPT !.taken = TRUE]
    /\ IF NotConnected(fg)
       THEN /\ resp' = ErrorResp("Not connected to FortiGate", 400)
            /\ srv' = SrvIdle
       ELSE /\ resp' = resp
            /\ srv' = [pc |-> "list", obj_type |-> req.obj_type,
                       items |-> req.items, i |-> 1, existing |-> {},
                       results |-> <<>>, accepted |-> fg]
    /\ UNCHANGED <<sanVars, seqVars, tabVars, rptVars, mapVars, extVars, fg, cli, hist, ops, rem, lastOpCat>>

\* the category of the latest remote operation, while a doPush run is on
NoteOp(c) == IF cli.pc = "idle" THEN lastOpCat ELSE CatIndex(c)

\* the status get_existing sees (403 stands for any status but 200)
ListCode(out) ==
    IF out = "ok200" THEN 200 ELSE IF out = "raise" THEN Raised ELSE 403

\* get_existing: the names listed if r.status_code == 200, else set()
get_existing(out, truth) == IF out = "ok200" THEN truth ELSE {}

\* whether the store an operation goes to holds the name (known for the
\* store that was listed)
InRemote(name) ==
    IF fg # rem.store THEN "unknown"
    ELSE IF name \in rem.names THEN "yes" ELSE "no"

\* existing = _fg.get_existing(ep).  truth is what the store holds under ep.
PushList ==
    /\ srv.pc = "list"
    /\ IF fg = None
       THEN \* AttributeError, caught by the outer except: error, 500
            /\ resp' = ErrorResp("NoneType", 500)
            /\ srv' = SrvIdle
            /\ UNCHANGED <<ops, rem, lastOpCat>>
       ELSE \E out \in {"ok200", "non200", "raise"}, truth \in SUBSET RemoteNames :
            /\ out = "raise" => truth = {}
            /\ ops' = Append(ops, [method |-> "GET", name |-> <<>>,
                                    code |-> ListCode(out), inRemote |-> "n/a",
                                    store |-> fg])
            /\ lastOpCat' = NoteOp(srv.obj_type)
            /\ rem' = [store |-> fg, names |-> truth,
                       listed |-> get_existing(out, truth)]
            /\ IF out = "raise"
               THEN /\ resp' = ErrorResp("transport", 500)
                    /\ srv' = SrvIdle
               ELSE /\ resp' = resp
                    /\ srv' = [srv EXCEPT
                                 !.pc = "items",
                                 !.existing = get_existing(out, truth)]
    /\ UNCHANGED <<sanVars, seqVars, tabVars, rptVars, mapVars, extVars, fg, cli, req, hist>>

\* the entry of results a create or update that answered `code` leaves
OwnResult(name, orig, code) ==
    IF code \in SuccessCodes THEN OkResult(name, orig, code)
    ELSE IF code = Raised THEN ErrResult(name, orig, "transport", 0)
    ELSE ErrResult(name, orig, "HTTP", code)

ExistingAfterAnyOutcome(existing, name, code) == existing \cup {name}

\* existing.add(name) after a success
ExistingAfter(existing, name, code) ==
    IF code \in SuccessCodes THEN existing \cup {name} ELSE existing

AfterEmptyNameBreak(i, n) == n + 1

\* the index of the record the loop turns to after record i of n had an
\* empty name: `continue`, so the next one
AfterEmptyName(i, n) == i + 1

AfterRecordHaltOnFailure(i, n, code) ==
    IF code \in SuccessCodes THEN i + 1 ELSE n + 1

\* the index of the record the loop turns to after record i of n answered
\* `code`: the except clauses swallow every failure, so the next one
AfterRecord(i, n, code) == i + 1

\* the body of `for item in items`, once
PushItem ==
    /\ srv.pc = "items"
    /\ srv.i <= Len(srv.items)
    /\ LET item == srv.items[srv.i]
           name == Strip(item.name)
           orig == item.orig_name
           refs == RefSkips(srv.obj_type, item, name)
       IN IF name = <<>>
          THEN /\ srv' = [srv EXCEPT !.results = Append(@, SkipEmpty),
                                     !.i = AfterEmptyName(@, Len(srv.items))]
               /\ UNCHANGED <<ops, rem, lastOpCat>>
          ELSE IF fg = None
          THEN \* _fg.upsert raises AttributeError, caught by the inner except
               /\ srv' = [srv EXCEPT
                            !.results = @ \o refs
                                \o <<ErrResult(name, orig, "NoneType", 0)>>,
                            !.i = @ + 1]
               /\ UNCHANGED <<ops, rem, lastOpCat>>
          ELSE \E code \in RespCodes \cup {Raised} :
               /\ ops' = Append(ops, [method |-> upsert(name, srv.existing),
                                       name |-> name, code |-> code,
                                       inRemote |-> InRemote(name),
                                       store |-> fg])
               /\ lastOpCat' = NoteOp(srv.obj_type)
               /\ rem' = IF code \in SuccessCodes /\ fg = rem.store
                         THEN [rem EXCEPT !.names = @ \cup {name}]
                         ELSE rem
               /\ srv' = [srv EXCEPT
                            !.results = @ \o refs \o <<OwnResult(name, orig, code)>>,
                            !.existing = ExistingAfter(@, name, code),
                            !.i = AfterRecord(@, Len(srv.items), code)]
    /\ UNCHANGED <<sanVars, seqVars, tabVars, rptVars, mapVars, extVars, fg, cli, req, resp, hist>>

\* return jsonify({'results': results})
PushReturn ==
    /\ srv.pc = "items"
    /\ srv.i > Len(srv.items)
    /\ resp' = ResultsResp(srv.results)
    /\ srv' = SrvIdle
    /\ UNCHANGED <<sanVars, seqVars, tabVars, rptVars, mapVars, extVars, fg, cli, req, hist, ops, rem,
                   lastOpCat>>

fg_push == PushCheck \/ PushList \/ PushItem \/ PushReturn

\* ------------------------------------------- push: one request at a time
\* a client posts {obj_type, items} to /fg_push
SendPush ==
    /\ req.obj_type = ""
    /\ \E c \in BranchCats :
         \E items \in SeqsUpTo(ItemsOf(c), MaxItems) \ {<<>>} :
            req' = [obj_type |-> c, items |-> items, taken |-> FALSE]
    /\ UNCHANGED <<sanVars, seqVars, tabVars, rptVars, mapVars, extVars, fg, srv, cli, resp, hist, ops,
                   rem, lastOpCat>>

\* the client reads the response
RecvPush ==
    /\ resp.kind # "none"
    /\ req' = NoReq
    /\ resp' = NoResp
    /\ ops' = <<>>
    /\ rem' = NoRem
    /\ UNCHANGED <<sanVars, seqVars, tabVars, rptVars, mapVars, extVars, fg, srv, cli, hist, lastOpCat>>

Next == fg_connect \/ fg_disconnect \/ fg_push \/ SendPush \/ RecvPush

Spec == Init /\ [][Next]_vars

\* ------------------------------------------------- push: what is observed
\* a step in which fg_push decides whether to accept the request
CheckStep == req.obj_type # "" /\ ~req.taken /\ req'.taken
\* a step in which the browser sends a request
SendStep == req.obj_type = "" /\ req'.obj_type # ""

\* the results list of the request being served or just answered
CurResults == IF srv.pc = "items" THEN srv.results ELSE resp.results
\* how many records of the request the loop has dealt with
Processed ==
    IF srv.pc = "items" THEN srv.i - 1
    ELSE IF resp.kind = "results" THEN Len(req.items) ELSE 0

IsRefSkip(r) == r.status = "skip" /\ r.msg = "Not in XML"
IsOwn(r) == ~IsRefSkip(r)
\* own outcomes behind which a create or update was sent
IsAttempt(r) == r.status = "ok" \/ (r.status = "err" /\ r.msg # "NoneType")
IsUpsert(o) == o.method # "GET"

OwnResults == SelectSeq(CurResults, IsOwn)
Attempts == SelectSeq(CurResults, IsAttempt)
Upserts == SelectSeq(ops, IsUpsert)

\* C1: a push request is accepted only if some connection attempt has
\* succeeded and no disconnect has happened since: in the initial state and
\* after any fg_disconnect every push request is rejected with an error, and
\* no remote operation (listing, create, update) is issued.
C1_PushOnlyWhileConnected ==
    [][/\ (CheckStep /\ srv'.pc # "idle" => hist.conn = "yes")
       /\ (CheckStep /\ hist.conn # "yes" =>
              /\ resp'.kind = "error"
              /\ srv'.pc = "idle"
              /\ ops' = <<>>)
       /\ (hist.conn # "yes" => ops' = ops \/ ops' = <<>>)]_vars

\* C1 witness: a push request was rejected after a disconnect
C1_Witness ==
    /\ hist.conn = "dropped"
    /\ resp.kind = "error"
    /\ resp.error = "Not connected to FortiGate"
    /\ ops = <<>>

\* C2: after a connection attempt that fails, every push request is rejected
\* until a later connection attempt succeeds, whatever came before the
\* failed attempt.
C2_FailedConnectBlocksPush ==
    [][CheckStep /\ hist.lastFailed =>
          resp'.kind = "error" /\ srv'.pc = "idle"]_vars

\* C4 as stated: for every record with a non-empty name an update is issued
\* if the name exists on the remote store and a create otherwise, never
\* both; an operation that answers a success status makes the record's
\* outcome ok with that status code.
C4_UpdateIffExistsRemotely ==
    /\ Len(Upserts) = Len(Attempts)
    /\ \A j \in 1..Len(Upserts) :
         /\ Upserts[j].inRemote = "yes" => Upserts[j].method = "PUT"
         /\ Upserts[j].inRemote = "no" => Upserts[j].method = "POST"
         /\ Upserts[j].code \in SuccessCodes =>
               Attempts[j].status = "ok" /\ Attempts[j].code = Upserts[j].code

\* the name a record is pushed under
ItemName(j) == Strip(req.items[j].name)

\* every record dealt with so far has exactly one own outcome, in request
\* order: the empty-name skip, or ok or err under the record's name
OwnOutcomesInOrder ==
    /\ Len(OwnResults) = Processed
    /\ \A j \in 1..Processed :
         /\ OwnResults[j].name = ItemName(j)
         /\ OwnResults[j].orig = req.items[j].orig_name
         /\ IF ItemName(j) = <<>>
            THEN OwnResults[j] = SkipEmpty
            ELSE OwnResults[j].status \in {"ok", "err"}

\* the creates and updates sent are, in order, one for each own outcome
\* that is not the empty-name skip and not the error of a missing client
OneOperationEach ==
    /\ Len(Upserts) = Len(Attempts)
    /\ \A j \in 1..Len(Upserts) : Upserts[j].name = Attempts[j].name
    /\ \A j \in 1..Len(OwnResults) :
         IsAttempt(OwnResults[j]) \/ OwnResults[j] = SkipEmpty
         \/ OwnResults[j].msg = "NoneType"

\* the request was accepted and has been answered
AnsweredAccepted ==
    resp.kind # "none" /\ resp.error # "Not connected to FortiGate"

\* C5 as stated: in every accepted category push every record with a
\* non-empty name has exactly one create-or-update attempted and exactly one
\* own outcome (ok or error), in request order, nothing is retried, and the
\* request always returns a result list.
C5_EveryRecordAttemptedOnce ==
    /\ OwnOutcomesInOrder
    /\ Len(Upserts) = Len(Attempts)
    /\ \A j \in 1..Len(OwnResults) :
         IsAttempt(OwnResults[j]) \/ OwnResults[j] = SkipEmpty
    /\ (AnsweredAccepted => resp.kind = "results")

\* C5, amended: in every accepted category push whose listing returns a
\* response, every record has exactly one own outcome in request order (ok or
\* err for a non-empty name) whatever earlier records produced, and the
\* request returns the result list; every record with a non-empty name has
\* one create-or-update attempted, never retried, except that a record
\* reached after the client was cleared by a concurrent disconnect gets an
\* err outcome and no operation.  When the listing raises, or the client is
\* cleared before the listing, the request returns an error and no create or
\* update is attempted.
C5_FailureDoesNotHaltCategory ==
    /\ OwnOutcomesInOrder
    /\ OneOperationEach
    /\ (AnsweredAccepted /\ resp.kind = "error" =>
          /\ Upserts = <<>>
          /\ \/ ops = <<>> /\ resp.error = "NoneType"
             \/ /\ Len(ops) = 1
                /\ ops[1].method = "GET"
                /\ ops[1].code = Raised
                /\ resp.error = "transport")
    /\ (srv.pc = "idle" /\ ops # <<>> /\ ops[1].code # Raised =>
          resp.kind = "results")

\* C5 witness: a request answered with a result list whose first record
\* failed and whose second record succeeded
C5_Witness ==
    /\ resp.kind = "results"
    /\ Len(OwnResults) = 2
    /\ OwnResults[1].status = "err" /\ OwnResults[1].msg = "HTTP"
    /\ OwnResults[2].status = "ok"
    /\ Len(Upserts) = 2

\* the creates and updates before the k-th that carried its name
EarlierOnName(k) == {j \in 1..(k - 1) : Upserts[j].name = Upserts[k].name}
Succeeded(j) == Upserts[j].code \in SuccessCodes

\* C28: within one category push request, once an operation on a canonical
\* name has succeeded, every later operation for a record with that name is
\* an update and never a second create; a name joins the existing-name set
\* only after a successful operation, so the operation for a record that
\* follows only failed creates of its name, the name not being listed, is a
\* create again.
C28_UpdateAfterSuccessCreateAfterFailure ==
    /\ \A k \in 1..Len(Upserts) :
          /\ ((\E j \in EarlierOnName(k) : Succeeded(j)) =>
                 Upserts[k].method = "PUT")
          /\ (/\ EarlierOnName(k) # {}
              /\ \A j \in EarlierOnName(k) :
                    Upserts[j].method = "POST" /\ ~Succeeded(j)
              => Upserts[k].method = "POST")
    /\ (srv.pc = "items" =>
          srv.existing =
             rem.listed \cup {Upserts[j].name : j \in {n \in 1..Len(Upserts) : Succeeded(n)}})

\* C28 witness: two records with one name, not listed; the first was
\* created, the second updated
C28_Witness ==
    /\ Len(Upserts) = 2
    /\ Upserts[1].name = Upserts[2].name
    /\ Upserts[1].method = "POST" /\ Succeeded(1)
    /\ Upserts[2].method = "PUT"

\* ------------------------------------- push: connecting to another store
\* the same server and client, with connect requests that name either of
\* two FortiGates
Targets == {"fw1", "fw2"}
fg_connect_any == Connect(Targets)

NextSwitch == fg_connect_any \/ fg_disconnect \/ fg_push \/ SendPush \/ RecvPush

SpecSwitch == Init /\ [][NextSwitch]_vars

\* C27: all remote operations issued while serving one push request (the
\* listing of existing names and every create or update) go to the remote
\* store that was connected when the request was accepted, under every
\* interleaving with concurrently served connect and disconnect requests.
C27_OperationsGoToAcceptedStore ==
    srv.pc # "idle" => \A j \in 1..Len(ops) : ops[j].store = srv.accepted

\* the skip outcomes a record's skipped_refs call for
RECURSIVE RefSkipsDue(_)
RefSkipsDue(items) ==
    IF items = <<>> THEN <<>>
    ELSE [j \in 1..Len(Head(items).skipped_refs) |->
             RefSkip(Head(items).skipped_refs[j], Strip(Head(items).name))]
         \o RefSkipsDue(Tail(items))

\* C6: for every group-type record of a push request each entry of its
\* skipped_refs is emitted as its own skip outcome naming the reference and
\* the group, whether the record's own outcome is ok, error or skip.
C6_SkippedRefsAlwaysReported ==
    resp.kind = "results" /\ req.obj_type \in GroupTypes =>
        SelectSeq(resp.results, IsRefSkip) = RefSkipsDue(req.items)

\* the number of results entries the first k records of the request call
\* for: one own outcome each, and a skip per skipped reference of a
\* group-type record whose name is not empty
RECURSIVE EntriesDue(_, _)
EntriesDue(items, k) ==
    IF k = 0 THEN 0
    ELSE EntriesDue(items, k - 1) + 1
         + (IF Strip(items[k].name) # <<>> /\ req.obj_type \in GroupTypes
            THEN Len(items[k].skipped_refs) ELSE 0)

\* the records dealt with so far whose name is empty after trimming
EmptyNamed == {j \in 1..Processed : ItemName(j) = <<>>}

\* C21: a pushed record whose canonical name is empty after trimming yields
\* exactly one skip outcome (status skip, empty name) and no other results
\* entry, causes no remote create or update, and the records after it in the
\* same request are still processed: a request whose loop was entered is
\* answered with one own outcome per record.
C21_EmptyNameSkippedOnce ==
    /\ Len(CurResults) = EntriesDue(req.items, Processed)
    /\ Len(OwnResults) = Processed
    /\ \A j \in EmptyNamed :
          /\ OwnResults[j].status = "skip"
          /\ OwnResults[j].name = <<>>
          /\ OwnResults[j].msg = "Empty name"
    /\ Len(Upserts) <= Processed - Cardinality(EmptyNamed)
    /\ \A j \in 1..Len(Upserts) : Upserts[j].name # <<>>
    /\ (resp.kind = "results" => Len(OwnResults) = Len(req.items))

\* C21 witness: a request answered with the results of two records, the
\* first with a name of blanks only and skipped, the second created
C21_Witness ==
    /\ resp.kind = "results"
    /\ Len(req.items) = 2
    /\ req.items[1].name # <<>> /\ ItemName(1) = <<>>
    /\ resp.results[1] = SkipEmpty
    /\ Len(OwnResults) = 2
    /\ OwnResults[2].status = "ok"
    /\ Len(Upserts) = 1

\* --------------------------------------------------------- push: browser
\* doPush: const sel = selectedObjs(); if (!sel.length) return
DoPushStart ==
    /\ cli.pc = "idle"
    /\ \E S \in SUBSET Cats :
         IF selectedObjs(S) = <<>>
         THEN UNCHANGED <<cli, lastOpCat>>
         ELSE /\ cli' = [pc |-> "loop", sel |-> selectedObjs(S), k |-> 1]
              /\ lastOpCat' = 0
    /\ UNCHANGED <<sanVars, seqVars, tabVars, rptVars, mapVars, extVars, fg, srv, req, resp, hist, ops, rem>>

\* the head of `for (const { key, title } of sel)`: items = foObjects[key];
\* if (!items.length) continue; fetch('/fg_push', ...)
DoPushNext ==
    /\ cli.pc = "loop"
    /\ IF cli.k > Len(cli.sel)
       THEN /\ cli' = CliIdle
            /\ UNCHANGED req
       ELSE \E items \in SeqsUpTo(RunItemsOf(cli.sel[cli.k]), MaxRunItems) :
            IF items = <<>>
            THEN /\ cli' = [cli EXCEPT !.k = @ + 1]
                 /\ UNCHANGED req
            ELSE /\ cli' = [cli EXCEPT !.pc = "await"]
                 /\ req' = [obj_type |-> cli.sel[cli.k], items |-> items,
                            taken |-> FALSE]
    /\ UNCHANGED <<sanVars, seqVars, tabVars, rptVars, mapVars, extVars, fg, srv, resp, hist, ops, rem,
                   lastOpCat>>

\* const d = await res.json(); ...; pushReport.categories.push(catData)
DoPushRecv ==
    /\ cli.pc = "await"
    /\ resp.kind # "none"
    /\ cli' = [cli EXCEPT !.pc = "loop", !.k = @ + 1]
    /\ req' = NoReq
    /\ resp' = NoResp
    /\ ops' = <<>>
    /\ rem' = NoRem
    /\ UNCHANGED <<sanVars, seqVars, tabVars, rptVars, mapVars, extVars, fg, srv, hist, lastOpCat>>

doPush == DoPushStart \/ DoPushNext \/ DoPushRecv

NextRun == fg_connect \/ fg_disconnect \/ fg_push \/ doPush

SpecRun == Init /\ [][NextRun]_vars

\* C3: in one push run, for every set of selected categories and whatever
\* the categories' outcomes, categories are pushed in the order of OBJ_ORDER:
\* no remote operation for a category follows one for a later category, and
\* a category's request is sent only after the previous response was read.
C3_CategoriesInOrder ==
    /\ [](\A m, n \in 1..Len(cli.sel) :
            m < n => CatIndex(cli.sel[m]) < CatIndex(cli.sel[n]))
    /\ [][/\ (lastOpCat' # lastOpCat =>
                 lastOpCat' = 0 \/ lastOpCat' > lastOpCat)
          /\ (SendStep =>
                 /\ resp.kind = "none"
                 /\ srv.pc = "idle"
                 /\ req'.obj_type = cli.sel[cli.k]
                 /\ CatIndex(req'.obj_type) > lastOpCat)
          /\ (cli.pc # "idle" /\ cli'.pc # "idle" => cli'.k >= cli.k)]_vars

\* C3 witness: the request of the second selected category is being served
\* after remote operations for the first
C3_Witness ==
    /\ cli.pc = "await"
    /\ cli.k = 2
    /\ req.obj_type = "networks"
    /\ srv.pc = "list"
    /\ lastOpCat = CatIndex("hosts")

\* ------------------------------------------- extractor: one call, alone
\* most elements in a document handed to one extract_objects call
MaxXmlLen == 2

NameAB == <<"a", " ", "b">>
NameC == <<"c">>
NameD == <<"d">>
NameJ == <<"j">>
NameZ == <<"z">>
NameAHashB == <<"a", "#", "b">>
Ping == <<"P", "i", "n", "g">>
PING == <<"P", "I", "N", "G">>
Kerberos == <<"K", "e", "r", "b", "e", "r", "o", "s">>
Kpasswd == <<"K", "p", "a", "s", "s", "w", "d">>

\* three of the entries of BUILTIN_MAP
BUILTIN_MAP == (Ping :> PING) @@ (Kerberos :> Kerberos) @@ (Kpasswd :> Kerberos)

\* attribute values of <mvia_address address=...>
Addr7 == <<"7", ".", "7", ".", "7", ".", "7">>
AddrX == <<"x">>
\* attribute values of <address_range ip_range=...>
RangeOk == <<" ">> \o Addr7 \o <<" ", "-", " ">> \o Addr7
RangeNoSep == Addr7
RangeTwoSeps == <<"7", "-", "7", "-", "7">>
RangeNoStart == <<"-">> \o Addr7

\* An element carries its tag, its name attribute, the address attribute of
\* its mvia_address child, its ip_range attribute and the ref attributes of
\* its ne_list or service_ref children, in document order (<<>> where the
\* attribute or the child is missing).
El(tag, name, address, ip_range, refs) ==
    [tag |-> tag, name |-> name, address |-> address,
     ip_range |-> ip_range, refs |-> refs]

XmlHosts ==
    {El("host", NameAB, Addr7, <<>>, <<>>),
     El("host", NameC, Addr7, <<>>, <<>>),
     El("host", Ping, Addr7, <<>>, <<>>),
     El("host", <<>>, Addr7, <<>>, <<>>),
     El("host", NameC, AddrX, <<>>, <<>>),
     El("host", NameC, <<>>, <<>>, <<>>)}
XmlRanges ==
    {El("address_range", NameD, <<>>, r, <<>>) :
        r \in {RangeOk, RangeNoSep, RangeTwoSeps, RangeNoStart}}
    \cup {El("address_range", NameAHashB, <<>>, RangeOk, <<>>)}
\* the reference lists of the group elements
RefLists ==
    {<<>>,
     <<NameZ>>,
     <<NameAB, NameZ>>,
     <<NameC, NameAB, NameC>>,
     <<NameZ, NameC, NameZ>>,
     <<Ping, NameC>>,
     <<Kpasswd, <<>>, NameZ, Ping, Kerberos>>}
XmlGroups ==
    {El("group", NameJ, <<>>, <<>>, refs) : refs \in RefLists}
    \cup {El("group", <<>>, <<>>, <<>>, <<NameC>>)}
XmlServiceGroups ==
    {El("gen_service_group", NameJ, <<>>, <<>>, refs) :
        refs \in {<<NameZ>>, <<Kpasswd, NameZ, Kerberos>>}}
XmlElems == XmlHosts \cup XmlRanges \cup XmlGroups \cup XmlServiceGroups
XmlDocuments == SeqsUpTo(XmlElems, MaxXmlLen) \ {<<>>}

\* every reference string the documents use, and one they do not
RefStrings == {NameAB, NameC, NameZ, NameD, NameJ, Ping, Kerberos, Kpasswd}

\* xml_names after pass 1 over doc
RECURSIVE FoldNames(_, _)
FoldNames(xml_names, doc) ==
    IF doc = <<>> THEN xml_names
    ELSE FoldNames(Pass1Names(xml_names, Head(doc)), Tail(doc))

\* the elements pass 1 has read when the element at position k is turned
\* into a record: pass 1 runs over the whole document before any record is
\* built
Pass1ScopeSinglePass(doc, k) == SubSeq(doc, 1, k)

Pass1Scope(doc, k) == doc

\* the value of a reference that resolves to nothing (None), and of one that
\* resolves to a name
Unresolved == <<>>
Resolved(name) == <<name>>

resolveBuiltinFirst(ref, xml_names, d) ==
    IF ref \in DOMAIN BUILTIN_MAP THEN Resolved(BUILTIN_MAP[ref])
    ELSE IF ref \in xml_names THEN Resolved(DictGet(d, ref, ref))
    ELSE Unresolved

\* resolve(ref) of extract_objects
resolve(ref, xml_names, d) ==
    IF ref \in xml_names THEN Resolved(DictGet(d, ref, ref))
    ELSE IF ref \in DOMAIN BUILTIN_MAP THEN Resolved(BUILTIN_MAP[ref])
    ELSE Unresolved

RECURSIVE CollectRefsSkipOnce(_, _, _)
CollectRefsSkipOnce(refs, xml_names, d) ==
    IF refs = <<>> THEN [members |-> <<>>, skipped |-> <<>>]
    ELSE LET ref == Strip(Head(refs))
             rest == CollectRefsSkipOnce(Tail(refs), xml_names, d)
             resolved == resolve(ref, xml_names, d)
         IN IF ref = <<>> THEN rest
            ELSE IF resolved # Unresolved
            THEN [rest EXCEPT !.members = <<resolved[1]>> \o @]
            ELSE IF \E n \in 1..Len(rest.skipped) : rest.skipped[n] = ref
            THEN rest
            ELSE [rest EXCEPT !.skipped = <<ref>> \o @]

\* the loop over ne_list / service_ref children: members and skipped
RECURSIVE CollectRefs(_, _, _)
CollectRefs(refs, xml_names, d) ==
    IF refs = <<>> THEN [members |-> <<>>, skipped |-> <<>>]
    ELSE LET ref == Strip(Head(refs))
             rest == CollectRefs(Tail(refs), xml_names, d)
             resolved == resolve(ref, xml_names, d)
         IN IF ref = <<>> THEN rest
            ELSE IF resolved # Unresolved
            THEN [rest EXCEPT !.members = <<resolved[1]>> \o @]
            ELSE [rest EXCEPT !.skipped = <<ref>> \o @]

Range(s) == {s[i] : i \in 1..Len(s)}

RECURSIVE DedupKeepLast(_)
DedupKeepLast(members) ==
    IF members = <<>> THEN <<>>
    ELSE IF Head(members) \in Range(Tail(members))
    THEN DedupKeepLast(Tail(members))
    ELSE <<Head(members)>> \o DedupKeepLast(Tail(members))

\* seen = set(); [m for m in members if not (m in seen or seen.add(m))]
RECURSIVE DedupFrom(_, _)
DedupFrom(members, seen) ==
    IF members = <<>> THEN <<>>
    ELSE IF Head(members) \in seen THEN DedupFrom(Tail(members), seen)
    ELSE <<Head(members)>> \o DedupFrom(Tail(members), seen \cup {Head(members)})

Dedup(members) == DedupFrom(members, {})

GroupRecordDropSkipped(xml_names, d, el) ==
    LET orig == Strip(el.name)
        c == CollectRefs(el.refs, xml_names, d)
        members == Dedup(c.members)
    IN IF members = <<>> THEN <<>>
       ELSE <<[orig_name |-> orig,
               name |-> DictGet(d, orig, orig),
               member |-> members,
               skipped_refs |-> <<>>]>>

\* net_groups / service_groups loop, one element: the record appended, if any
GroupRecord(xml_names, d, el) ==
    LET orig == Strip(el.name)
        c == CollectRefs(el.refs, xml_names, d)
        members == Dedup(c.members)
    IN IF members = <<>> THEN <<>>
       ELSE <<[orig_name |-> orig,
               name |-> DictGet(d, orig, orig),
               member |-> members,
               skipped_refs |-> c.skipped]>>

\* the position of the first c in s, 0 when there is none
RECURSIVE IndexOf(_, _)
IndexOf(s, c) ==
    IF s = <<>> THEN 0
    ELSE IF Head(s) = c THEN 1
    ELSE LET k == IndexOf(Tail(s), c) IN IF k = 0 THEN 0 ELSE k + 1

\* r.split('-', 1) for an r that contains '-'
SplitOnce(r, c) ==
    LET k == IndexOf(r, c)
    IN <<SubSeq(r, 1, k - 1), SubSeq(r, k + 1, Len(r))>>

\* address ranges loop, one element: the record appended, if any
RangeRecord(d, el) ==
    LET r == Strip(el.ip_range)
        orig == Strip(el.name)
    IN IF "-" \notin Range(r) THEN <<>>
       ELSE <<[orig_name |-> orig,
               name |-> DictGet(d, orig, orig),
               start_ip |-> Strip(SplitOnce(r, "-")[1]),
               end_ip |-> Strip(SplitOnce(r, "-")[2])]>>

\* the record, if any, that the loop over `tag` appends for element k of doc
RecordAt(doc, k, tag) ==
    LET el == doc[k]
        scope == Pass1Scope(doc, k)
        xml_names == FoldNames({}, scope)
        d == FoldPass1(EmptyDict, scope)
    IN IF el.tag # tag THEN <<>>
       ELSE IF tag = "host" THEN HostRecord(d, el)
       ELSE IF tag = "address_range" THEN RangeRecord(d, el)
       ELSE GroupRecord(xml_names, d, el)

\* for el in root.iter(tag): ...
RECURSIVE IterFrom(_, _, _)
IterFrom(doc, k, tag) ==
    IF k > Len(doc) THEN <<>>
    ELSE RecordAt(doc, k, tag) \o IterFrom(doc, k + 1, tag)

Iter(doc, tag) == IterFrom(doc, 1, tag)

\* what extract_objects returns for doc
extract_objects(doc) ==
    [hosts |-> Iter(doc, "host"),
     networks |-> <<>>,
     addr_ranges |-> Iter(doc, "address_range"),
     net_groups |-> Iter(doc, "group"),
     services |-> <<>>,
     service_groups |-> Iter(doc, "gen_service_group"),
     name_map |-> FoldPass1(EmptyDict, doc)]

\* --------------------------------- extractor of V1.1, the same documents
\* resolve(ref) of V1.1: a name of the document is mapped, any other
\* reference is passed through
resolve_v11(ref, xml_names, d) ==
    IF ref \in xml_names THEN DictGet(d, ref, ref) ELSE ref

RECURSIVE MembersV11(_, _, _)
MembersV11(refs, xml_names, d) ==
    IF refs = <<>> THEN <<>>
    ELSE LET ref == Strip(Head(refs))
             rest == MembersV11(Tail(refs), xml_names, d)
         IN IF ref = <<>> THEN rest
            ELSE <<resolve_v11(ref, xml_names, d)>> \o rest

\* ', '.join(members)
RECURSIVE JoinComma(_)
JoinComma(members) ==
    IF members = <<>> THEN <<>>
    ELSE IF Len(members) = 1 THEN members[1]
    ELSE members[1] \o <<",", " ">> \o JoinComma(Tail(members))

RecordAtV11(doc, k, tag) ==
    LET el == doc[k]
        xml_names == FoldNames({}, doc)
        d == FoldPass1(EmptyDict, doc)
        orig == Strip(el.name)
        name == DictGet(d, orig, orig)
    IN IF el.tag # tag \/ orig = <<>> THEN <<>>
       ELSE IF tag = "host" THEN <<[name |-> name, ip |-> Strip(el.address)]>>
       ELSE IF tag = "address_range"
       THEN <<[name |-> name, range |-> Strip(el.ip_range)]>>
       ELSE <<[name |-> name,
               members |-> JoinComma(Dedup(MembersV11(el.refs, xml_names, d)))]>>

RECURSIVE IterFromV11(_, _, _)
IterFromV11(doc, k, tag) ==
    IF k > Len(doc) THEN <<>>
    ELSE RecordAtV11(doc, k, tag) \o IterFromV11(doc, k + 1, tag)

extract_objects_v11(doc) ==
    [hosts |-> IterFromV11(doc, 1, "host"),
     networks |-> <<>>,
     addr_ranges |-> IterFromV11(doc, 1, "address_range"),
     net_groups |-> IterFromV11(doc, 1, "group"),
     services |-> <<>>,
     service_groups |-> IterFromV11(doc, 1, "gen_service_group"),
     zones |-> <<>>,
     policies |-> <<>>]

\* ------------------------------------------------- extractor: actions
Variants == {"V2", "V1.1"}

InitExt ==
    /\ SanIdle
    /\ MapInit
    /\ ExtIdle
    /\ PushIdle
    /\ TabIdle /\ RptIdle
    /\ xml \in XmlDocuments
    /\ xcall = [pc |-> "uploaded", variant |-> "", xml_names |-> {},
                name_map |-> EmptyDict]
    /\ objects = <<>>

\* _name_map = {} and PASS 1 of the variant that serves the upload
ExtractPass1 ==
    /\ xcall.pc = "uploaded"
    /\ \E v \in Variants :
         xcall' = [pc |-> "pass1", variant |-> v,
                   xml_names |-> FoldNames({}, xml),
                   name_map |-> FoldPass1(EmptyDict, xml)]
    /\ UNCHANGED <<xml, objects>>
    /\ UNCHANGED <<sanVars, mapVars, extVars, pushVars, tabVars, rptVars>>

\* the loops over the object tags, and the return
ExtractRecords ==
    /\ xcall.pc = "pass1"
    /\ objects' = IF xcall.variant = "V2" THEN extract_objects(xml)
                  ELSE extract_objects_v11(xml)
    /\ xcall' = [xcall EXCEPT !.pc = "done"]
    /\ UNCHANGED xml
    /\ UNCHANGED <<sanVars, mapVars, extVars, pushVars, tabVars, rptVars>>

NextExt == ExtractPass1 \/ ExtractRecords

SpecExt == InitExt /\ [][NextExt]_vars

DoneV2 == xcall.pc = "done" /\ xcall.variant = "V2"
DoneV11 == xcall.pc = "done" /\ xcall.variant = "V1.1"

\* ------------------------------------------- extractor: what is observed
Categories ==
    {"hosts", "networks", "addr_ranges", "net_groups", "services",
     "service_groups"}
GroupTags == [net_groups |-> "group", service_groups |-> "gen_service_group"]

\* the original names the document's elements carry
OrigNames == {Strip(xml[k].name) : k \in 1..Len(xml)} \ {<<>>}

\* the non-empty references of a group element, in document order
IsNonEmpty(s) == s # <<>>
RefsOf(el) == SelectSeq([i \in 1..Len(el.refs) |-> Strip(el.refs[i])], IsNonEmpty)

\* how the call in progress resolves a reference
ResolveNow(ref) == resolve(ref, xcall.xml_names, xcall.name_map)
IsHit(ref) == ResolveNow(ref) # Unresolved
IsMiss(ref) == ResolveNow(ref) = Unresolved
HitsOf(el) == SelectSeq(RefsOf(el), IsHit)
MissesOf(el) == SelectSeq(RefsOf(el), IsMiss)
ResolvedNamesOf(el) == [i \in 1..Len(HitsOf(el)) |-> ResolveNow(HitsOf(el)[i])[1]]

IsAddressGroup(el) == el.tag = "group"
IsServiceGroup(el) == el.tag = "gen_service_group"
HasHit(el) == HitsOf(el) # <<>>
\* the group elements of a category, and those with a reference that resolves
GroupElems(c) ==
    IF c = "net_groups" THEN SelectSeq(xml, IsAddressGroup)
    ELSE SelectSeq(xml, IsServiceGroup)
EmittingGroups(c) == SelectSeq(GroupElems(c), HasHit)

\* C11: every emitted record of every category has a name that satisfies the
\* naming grammar: it is non-empty, at most 79 characters long and uses only
\* the restricted character set; for a record whose source element has a
\* name, the name is the sanitized form of that name.
C11_RecordNamesSatisfyGrammar ==
    xcall.pc = "done" =>
        \A c \in Categories : \A i \in 1..Len(objects[c]) :
            LET r == objects[c][i]
            IN /\ r.name # <<>>
               /\ Len(r.name) <= MaxNameLen
               /\ \A n \in 1..Len(r.name) : IsGrammarChar(r.name[n])
               /\ (xcall.variant = "V2" /\ r.orig_name # <<>> =>
                     r.name = sanitize_name(r.orig_name, MaxNameLen))

MemberList(r) == IF xcall.variant = "V2" THEN r.member ELSE r.members

\* C13: a group record is emitted only if at least one of its member
\* references resolved: every emitted group record has a non-empty member
\* list, and every group element with at least one resolvable reference
\* yields exactly one record.
C13_GroupsNeedResolvedMember ==
    xcall.pc = "done" =>
        \A c \in DOMAIN GroupTags :
            /\ \A i \in 1..Len(objects[c]) : MemberList(objects[c][i]) # <<>>
            /\ Len(objects[c]) = Len(EmittingGroups(c))

\* C14 as stated: for every group element and every non-empty member
\* reference in it that resolves to nothing, the output contains a record
\* for that group whose skipped_refs contains the reference.
C14_MissesAlwaysSurfaced ==
    DoneV2 =>
        \A c \in DOMAIN GroupTags : \A k \in 1..Len(GroupElems(c)) :
            LET el == GroupElems(c)[k]
            IN \A m \in 1..Len(MissesOf(el)) :
                 \E i \in 1..Len(objects[c]) :
                    /\ objects[c][i].orig_name = Strip(el.name)
                    /\ MissesOf(el)[m] \in Range(objects[c][i].skipped_refs)

\* C14, amended: for every group element with at least one reference that
\* resolves, the output contains one record for that group, and the record's
\* skipped_refs is the sequence of the element's non-empty references that
\* resolve to nothing, in document order; a group element none of whose
\* references resolves yields no record, and its misses are not reported.
C14_MissesSurfacedOnEmittedGroups ==
    DoneV2 =>
        \A c \in DOMAIN GroupTags :
            /\ Len(objects[c]) = Len(EmittingGroups(c))
            /\ \A i \in 1..Len(objects[c]) :
                 /\ objects[c][i].orig_name = Strip(EmittingGroups(c)[i].name)
                 /\ objects[c][i].skipped_refs = MissesOf(EmittingGroups(c)[i])

\* C14 witness: a group with one reference that resolves and one that does
\* not is emitted with the miss in its skipped_refs
C14_Witness ==
    /\ DoneV2
    /\ Len(objects.net_groups) = 1
    /\ objects.net_groups[1].member = <<<<"a", "_", "b">>>>
    /\ objects.net_groups[1].skipped_refs = <<NameZ>>

\* the position of the first occurrence of x in s
FirstAt(s, x) == CHOOSE n \in 1..Len(s) : s[n] = x /\ \A h \in 1..(n - 1) : s[h] # x

\* m is s with every later repetition of a name removed
IsFirstOccurrences(m, s) ==
    /\ Range(m) = Range(s)
    /\ \A a, b \in 1..Len(m) : a < b => FirstAt(s, m[a]) < FirstAt(s, m[b])

\* C15: the member list of every emitted group contains no duplicates and
\* preserves first-occurrence order: it is the sequence of resolved names of
\* the group's references in document order with every later repetition of
\* an already-present name removed, also when two different references
\* resolve to the same name.
C15_MembersFirstOccurrenceOrder ==
    DoneV2 =>
        \A c \in DOMAIN GroupTags :
            /\ Len(objects[c]) = Len(EmittingGroups(c))
            /\ \A i \in 1..Len(objects[c]) :
                 IsFirstOccurrences(objects[c][i].member,
                                    ResolvedNamesOf(EmittingGroups(c)[i]))

\* C15 witness: Kpasswd and Kerberos both resolve to Kerberos, with PING
\* between them, and the member list keeps Kerberos first
C15_Witness ==
    /\ DoneV2
    /\ Len(objects.net_groups) = 1
    /\ objects.net_groups[1].member = <<Kerberos, PING>>
    /\ Len(ResolvedNamesOf(GroupElems("net_groups")[1])) = 3

\* doc with the element at position j moved to position i, i < j
MoveBefore(doc, j, i) ==
    [n \in 1..Len(doc) |->
        IF n < i \/ n > j THEN doc[n]
        ELSE IF n = i THEN doc[j]
        ELSE doc[n - 1]]

IsGroupElem(el) == el.tag \in {"group", "gen_service_group"}

\* C16: reference resolution does not depend on document order: a group
\* that references an object defined later in the document gets the same
\* members and skipped_refs as in the document where the object's element is
\* moved before the group.
C16_ResolutionOrderIndependent ==
    DoneV2 =>
        \A i, j \in 1..Len(xml) :
            i < j /\ ~IsGroupElem(xml[j]) =>
                LET moved == extract_objects(MoveBefore(xml, j, i))
                IN /\ moved.net_groups = objects.net_groups
                   /\ moved.service_groups = objects.service_groups

\* C16 witness: the group comes first, the object it references second, and
\* the reference is resolved
C16_Witness ==
    /\ DoneV2
    /\ Len(xml) = 2
    /\ xml[1].tag = "group" /\ xml[2].tag = "host"
    /\ Strip(xml[2].name) = NameAB
    /\ Len(objects.net_groups) = 1
    /\ objects.net_groups[1].member = <<<<"a", "_", "b">>>>
    /\ objects.net_groups[1].skipped_refs = <<NameZ>>

\* ---- dotted-quad IPv4 addresses
Digits == <<"0", "1", "2", "3", "4", "5", "6", "7", "8", "9">>
DigitVal(c) == (CHOOSE n \in 1..Len(Digits) : Digits[n] = c) - 1

RECURSIVE DecimalVal(_)
DecimalVal(s) ==
    IF s = <<>> THEN 0
    ELSE 10 * DecimalVal(SubSeq(s, 1, Len(s) - 1)) + DigitVal(s[Len(s)])

\* s.split(c)
RECURSIVE SplitAll(_, _)
SplitAll(s, c) ==
    IF c \notin Range(s) THEN <<s>>
    ELSE <<SplitOnce(s, c)[1]>> \o SplitAll(SplitOnce(s, c)[2], c)

IsOctet(s) ==
    /\ Len(s) \in 1..3
    /\ \A n \in 1..Len(s) : s[n] \in Range(Digits)
    /\ DecimalVal(s) <= 255

IsIPv4(s) ==
    LET parts == SplitAll(s, ".")
    IN Len(parts) = 4 /\ \A n \in 1..4 : IsOctet(parts[n])

IsHostElem(el) == el.tag = "host"
HasIPv4(el) == IsIPv4(Strip(el.address))
\* the host elements that carry a valid IPv4 address, in document order
ValidHosts == SelectSeq(SelectSeq(xml, IsHostElem), HasIPv4)

\* C23: after an extraction run the name mapping holds exactly the
\* registered original names (the non-empty trimmed name attributes of the
\* document's elements) whose sanitized form differs from the original, each
\* mapped to its sanitized form; a registered name that equals its sanitized
\* form is not a key.
C23_MappingHoldsChangedNames ==
    DoneV2 =>
        /\ DOMAIN objects.name_map =
               {n \in OrigNames : sanitize_name(n, MaxNameLen) # n}
        /\ \A n \in DOMAIN objects.name_map :
               objects.name_map[n] = sanitize_name(n, MaxNameLen)

\* C23 witness: a run on a document with a name the sanitizer changes and a
\* name it leaves alone has returned
C23_Witness ==
    /\ DoneV2
    /\ NameAB \in DOMAIN objects.name_map
    /\ objects.name_map[NameAB] = <<"a", "_", "b">>
    /\ NameC \in OrigNames
    /\ NameC \notin DOMAIN objects.name_map

\* C24: for every emitted group record, skipped_refs is exactly the sequence,
\* in document order and with repetitions kept, of the group's non-empty
\* references that resolve to nothing, and every non-empty reference of the
\* group is accounted for exactly once: a reference that resolves has its
\* resolved name in the member list and is not counted among the skipped
\* ones, a reference that does not resolve is in skipped_refs, and
\* skipped_refs has no entry beyond these.
C24_EveryReferenceAccountedOnce ==
    DoneV2 =>
        \A c \in DOMAIN GroupTags :
            /\ Len(objects[c]) = Len(EmittingGroups(c))
            /\ \A i \in 1..Len(objects[c]) :
                 LET r == objects[c][i]
                     el == EmittingGroups(c)[i]
                 IN /\ r.skipped_refs = MissesOf(el)
                    /\ Len(RefsOf(el)) = Len(HitsOf(el)) + Len(r.skipped_refs)
                    /\ \A n \in 1..Len(RefsOf(el)) :
                         LET ref == RefsOf(el)[n]
                         IN IF IsHit(ref)
                            THEN ResolveNow(ref)[1] \in Range(r.member)
                            ELSE ref \in Range(r.skipped_refs)
                    /\ Range(r.member) =
                          {ResolveNow(HitsOf(el)[n])[1] : n \in 1..Len(HitsOf(el))}

\* C24 witness: a group whose references miss, hit and miss again with the
\* same reference is emitted with both misses kept
C24_Witness ==
    /\ DoneV2
    /\ Len(objects.net_groups) = 1
    /\ objects.net_groups[1].member = <<NameC>>
    /\ objects.net_groups[1].skipped_refs = <<NameZ, NameZ>>

\* the canonical names of the records emitted in a category
NamesOf(c) == {objects[c][i].name : i \in 1..Len(objects[c])}
\* the built-in target names
BuiltinTargets == {BUILTIN_MAP[k] : k \in DOMAIN BUILTIN_MAP}

\* C29: emitted groups are referentially valid: every member of an emitted
\* address group is the canonical name of a host, network, address-range or
\* address-group record emitted by the same run or a built-in target name,
\* and every member of an emitted service group is the canonical name of an
\* emitted service or service-group record or a built-in target name.
C29_GroupMembersAreEmitted ==
    DoneV2 =>
        /\ \A i \in 1..Len(objects.net_groups) :
              Range(objects.net_groups[i].member) \subseteq
                 NamesOf("hosts") \cup NamesOf("networks")
                 \cup NamesOf("addr_ranges") \cup NamesOf("net_groups")
                 \cup BuiltinTargets
        /\ \A i \in 1..Len(objects.service_groups) :
              Range(objects.service_groups[i].member) \subseteq
                 NamesOf("services") \cup NamesOf("service_groups")
                 \cup BuiltinTargets

\* the records of the categories that are pushed to one endpoint
SameEndpoint(c1, c2) == EP[c1] = EP[c2]
\* the name a record gets for an original name
CanonicalOf(orig) == IF orig = <<>> THEN <<>> ELSE sanitize_name(orig, MaxNameLen)

C19_HostsNeedIPv4 ==
    DoneV2 =>
        /\ Len(objects.hosts) = Len(ValidHosts)
        /\ \A i \in 1..Len(objects.hosts) :
             /\ i <= Len(ValidHosts)
             /\ objects.hosts[i].orig_name = Strip(ValidHosts[i].name)
             /\ objects.hosts[i].subnet =
                   Strip(ValidHosts[i].address) \o <<" ">> \o Mask32

IsRangeElem(el) == el.tag = "address_range"
\* a single '-' separator with a non-empty string on each side
HasValidRange(el) ==
    LET parts == SplitAll(Strip(el.ip_range), "-")
    IN Len(parts) = 2 /\ Strip(parts[1]) # <<>> /\ Strip(parts[2]) # <<>>
ValidRanges == SelectSeq(SelectSeq(xml, IsRangeElem), HasValidRange)

\* C20: an AddressRange record is emitted only if the ip_range attribute
\* contains a single '-' separator splitting two IP strings; a value with no
\* separator, with more than one separator or with an empty side yields no
\* record, and an emitted record's start-ip and end-ip are the two trimmed
\* sides.
C20_RangesNeedSingleSeparator ==
    DoneV2 =>
        /\ Len(objects.addr_ranges) = Len(ValidRanges)
        /\ \A i \in 1..Len(objects.addr_ranges) :
             /\ i <= Len(ValidRanges)
             /\ LET parts == SplitAll(Strip(ValidRanges[i].ip_range), "-")
                IN /\ objects.addr_ranges[i].start_ip = Strip(parts[1])
                   /\ objects.addr_ranges[i].end_ip = Strip(parts[2])

\* ------------------------------------------------------------ tabulator
\* most children of one element of a document handed to parse_xml
MaxKids == 2

\* A document is the sequence of the root's children; a child carries its
\* tag and the tags of its own children, which are leaves.
Tags == <<"a", "b">>
TagSet == Range(Tags)
ChildElems == [tag : TagSet, kids : SeqsUpTo(TagSet, MaxKids)]
Trees == SeqsUpTo(ChildElems, MaxKids)

directAllDepths(root) ==
    {root[i].tag : i \in 1..Len(root)}
    \cup UNION {Range(root[i].kids) : i \in 1..Len(root)}

\* direct: for child in root: direct[child.tag].append(child)
direct(root) == {root[i].tag : i \in 1..Len(root)}

\* for el in root.iter(): the tags of all elements but the root, in
\* document order
RECURSIVE IterTags(_)
IterTags(root) ==
    IF root = <<>> THEN <<>>
    ELSE <<Head(root).tag>> \o Head(root).kids \o IterTags(Tail(root))

RECURSIVE CountOf(_, _)
CountOf(s, x) ==
    IF s = <<>> THEN 0
    ELSE (IF Head(s) = x THEN 1 ELSE 0) + CountOf(Tail(s), x)

\* len(all_els[t])
all_els_count(root, t) == CountOf(IterTags(root), t)

\* summary, for t in sorted(all_els)
RECURSIVE SummaryFrom(_, _)
SummaryFrom(root, n) ==
    IF n > Len(Tags) THEN <<>>
    ELSE (IF all_els_count(root, Tags[n]) > 0
          THEN <<[tag |-> Tags[n],
                  is_direct |-> Tags[n] \in direct(root),
                  count |-> all_els_count(root, Tags[n])]>>
          ELSE <<>>)
         \o SummaryFrom(root, n + 1)

\* the rows of sheet 01_SUMMARY
SummaryRows(summary) ==
    [n \in 1..Len(summary) |->
        <<summary[n].tag,
          IF summary[n].is_direct THEN "Yes" ELSE "No",
          summary[n].count>>]

\* what parse_xml returns: the summary, and the summary sheet (the tag
\* sheets' rows and columns are left out)
parse_xml(root) ==
    [summary |-> SummaryFrom(root, 1),
     summary_rows |-> SummaryRows(SummaryFrom(root, 1))]

InitTab ==
    /\ SanIdle
    /\ MapInit
    /\ ExtIdle
    /\ PushIdle
    /\ SeqIdle /\ RptIdle
    /\ tree \in Trees
    /\ tab = <<>>

ParseXml ==
    /\ tab = <<>>
    /\ tab' = parse_xml(tree)
    /\ UNCHANGED tree
    /\ UNCHANGED <<sanVars, mapVars, extVars, pushVars, seqVars, rptVars>>

NextTab == ParseXml

SpecTab == InitTab /\ [][NextTab]_vars

\* the tags at depth one and at depth two of the document
RootChildTags == {tree[i].tag : i \in 1..Len(tree)}
DeeperTags == UNION {Range(tree[i].kids) : i \in 1..Len(tree)}
\* how the summary sheet classifies a tag: "Yes" is direct, "No" is nested
RowOf(t) ==
    tab.summary_rows[CHOOSE n \in 1..Len(tab.summary_rows) :
                        tab.summary_rows[n][1] = t]
ReportedDirect(t) == RowOf(t)[2] = "Yes"
ReportedNested(t) == RowOf(t)[2] = "No"
InSummary(t) == \E n \in 1..Len(tab.summary_rows) : tab.summary_rows[n][1] = t

\* C18 as stated: every tag that occurs as an immediate child of the root is
\* classified direct, every tag reachable only by deeper nesting is
\* classified nested, and a tag that occurs at both depths is reported as
\* both direct and nested.
C18_BothDepthsReportedAsBoth ==
    tab # <<>> =>
        \A t \in RootChildTags \cup DeeperTags :
            /\ InSummary(t)
            /\ (t \in RootChildTags => ReportedDirect(t))
            /\ (t \in DeeperTags \ RootChildTags => ReportedNested(t))
            /\ (t \in RootChildTags \cap DeeperTags =>
                  ReportedDirect(t) /\ ReportedNested(t))

\* C18, amended: every tag that occurs in the document has one summary
\* entry; a tag that occurs as an immediate child of the root is classified
\* direct, a tag reachable only by deeper nesting is classified nested (not
\* direct), and a tag that occurs at both depths is classified direct only;
\* in every case the entry's count is the number of the tag's elements at
\* all depths.
C18_DirectIffRootChild ==
    tab # <<>> =>
        /\ \A t \in TagSet : InSummary(t) <=> t \in RootChildTags \cup DeeperTags
        /\ \A n \in 1..Len(tab.summary) :
             LET s == tab.summary[n]
             IN /\ s.is_direct <=> s.tag \in RootChildTags
                /\ ReportedDirect(s.tag) <=> s.is_direct
                /\ ReportedNested(s.tag) <=> ~s.is_direct
                /\ s.count = Cardinality({i \in 1..Len(tree) : tree[i].tag = s.tag})
                             + CountOf(IterTags([i \in 1..Len(tree) |->
                                   [tag |-> "", kids |-> tree[i].kids]]), s.tag)
        /\ \A m, n \in 1..Len(tab.summary) :
             m # n => tab.summary[m].tag # tab.summary[n].tag

\* C18 witness: tag a occurs at both depths and is classified direct, tag b
\* occurs at depth two only and is classified nested
C18_Witness ==
    /\ tab # <<>>
    /\ "a" \in RootChildTags \cap DeeperTags
    /\ "b" \in DeeperTags \ RootChildTags
    /\ ReportedDirect("a") /\ ~ReportedNested("a")
    /\ ReportedNested("b")

\* ------------------------------------------------------------ flattener
\* flatten_element on one element.  An element carries its tag, its
\* attributes as a sequence of <<key, value>> pairs in document order, its
\* text and its children; a row is a dict, kept as the sequence of
\* <<column, value>> pairs in insertion order.
MaxFlatKids == 3

\* if len(v) > 500: v = v[:200] + "...[truncated]"
TruncateOver == 500
TruncateKeep == 200
TruncatedMark ==
    <<".", ".", ".", "[", "t", "r", "u", "n", "c", "a", "t", "e", "d", "]">>
TruncateValue(v) ==
    IF Len(v) > TruncateOver THEN SubSeq(v, 1, TruncateKeep) \o TruncatedMark ELSE v

Dot == <<".">>
TextKey == <<"_", "t", "e", "x", "t">>
\* " | "
Bar == <<" ", "|", " ">>

Elem(tag, attrib, text, kids) ==
    [tag |-> tag, attrib |-> attrib, text |-> text, kids |-> kids]

AttrK1 == << <<"k">>, <<"1">> >>
AttrQ2 == << <<"q">>, <<"2">> >>
AttrK3 == << <<"k">>, <<"3">> >>
AttrA0 == << <<"a">>, <<"0">> >>
TextY == <<" ", "y", " ">>
TextX == <<"x">>
TextT == <<"t">>
GrandAttr == Elem(<<"v">>, <<AttrK3>>, <<>>, <<>>)
GrandText == Elem(<<"v">>, <<>>, TextX, <<>>)

\* the children an element may have: tags m and s, bare, with text, with
\* one attribute, or (m) with children v of their own
FlatChildren ==
    {Elem(t, a[1], a[2], <<>>) :
        t \in {<<"m">>, <<"s">>},
        a \in {<< <<>>, <<>> >>, << <<>>, TextY >>,
               << <<AttrK1>>, <<>> >>, << <<AttrQ2>>, <<>> >>}}
    \cup {Elem(<<"m">>, <<>>, <<>>, g) :
            g \in {<<GrandAttr>>, <<GrandText>>, <<GrandText, GrandAttr>>}}
FlatElems ==
    {Elem(<<"e">>, a[1], a[2], kids) :
        a \in {<< <<>>, <<>> >>, << <<AttrA0>>, TextT >>},
        kids \in SeqsUpTo(FlatChildren, MaxFlatKids)}

\* row[col] = v
RowSet(row, col, v) ==
    IF \E n \in 1..Len(row) : row[n][1] = col
    THEN [n \in 1..Len(row) |-> IF row[n][1] = col THEN <<col, v>> ELSE row[n]]
    ELSE Append(row, <<col, v>>)

\* row.update(other)
RECURSIVE RowUpdate(_, _)
RowUpdate(row, other) ==
    IF other = <<>> THEN row
    ELSE RowUpdate(RowSet(row, Head(other)[1], Head(other)[2]), Tail(other))

\* " | ".join(vals)
RECURSIVE JoinBar(_)
JoinBar(vals) ==
    IF vals = <<>> THEN <<>>
    ELSE IF Len(vals) = 1 THEN vals[1]
    ELSE vals[1] \o Bar \o JoinBar(Tail(vals))

RECURSIVE Concat(_)
Concat(ss) == IF ss = <<>> THEN <<>> ELSE Head(ss) \o Concat(Tail(ss))

AttrKeys(el) == [n \in 1..Len(el.attrib) |-> el.attrib[n][1]]
HasAttr(el, k) == \E n \in 1..Len(el.attrib) : el.attrib[n][1] = k
AttrGet(el, k) ==
    el.attrib[CHOOSE n \in 1..Len(el.attrib) : el.attrib[n][1] = k][2]

\* list(dict.fromkeys(k for c in children for k in c.attrib))
UnionKeys(children) ==
    Dedup(Concat([n \in 1..Len(children) |-> AttrKeys(children[n])]))

\* " | ".join(c.attrib[k] for c in children if k in c.attrib)
JoinedAttr(children, k) ==
    LET Carries(c) == HasAttr(c, k)
        carriers == SelectSeq(children, Carries)
    IN JoinBar([n \in 1..Len(carriers) |-> AttrGet(carriers[n], k)])

\* [c.text.strip() for c in children if c.text and c.text.strip()]
TrimmedTexts(children) ==
    LET HasText(c) == Strip(c.text) # <<>>
        with == SelectSeq(children, HasText)
    IN [n \in 1..Len(with) |-> Strip(with[n].text)]

\* for k in keys: row[f"{cp}{k}"] = " | ".join(...)
RECURSIVE KeyColumns(_, _, _, _)
KeyColumns(row, cp, children, keys) ==
    IF keys = <<>> THEN row
    ELSE KeyColumns(RowSet(row, cp \o Head(keys), JoinedAttr(children, Head(keys))),
                    cp, children, Tail(keys))

\* the columns of a group from its instances: by attribute key, else text
GroupOwnColumns(row, cp, children) ==
    LET keys == UnionKeys(children)
        vals == TrimmedTexts(children)
    IN IF keys # <<>> THEN KeyColumns(row, cp, children, keys)
       ELSE IF vals # <<>> THEN RowSet(row, cp \o TextKey, JoinBar(vals))
       ELSE row

WithTag(els, tag) == LET Is(c) == c.tag = tag IN SelectSeq(els, Is)
TagsOf(els) == [n \in 1..Len(els) |-> els[n].tag]

\* ggg: for c in children: for gc in c: ggg[gc.tag].append(gc)
Grandchildren(children) == Concat([n \in 1..Len(children) |-> children[n].kids])

\* for gt, gl in ggg.items(): one column per attribute key of gl
RECURSIVE GrandColumns(_, _, _, _)
GrandColumns(row, cp, gcs, gtags) ==
    IF gtags = <<>> THEN row
    ELSE LET gl == WithTag(gcs, Head(gtags))
         IN GrandColumns(KeyColumns(row, cp \o Head(gtags) \o Dot, gl, UnionKeys(gl)),
                         cp, gcs, Tail(gtags))

\* child_count[child.tag]
child_count(el, tag) == Len(WithTag(el.kids, tag))
\* the keys of grouped and of single, in insertion order
grouped(el) ==
    LET Repeated(t) == child_count(el, t) > 1
    IN Dedup(SelectSeq(TagsOf(el.kids), Repeated))
single(el) ==
    LET Once(t) == child_count(el, t) = 1
    IN SelectSeq(TagsOf(el.kids), Once)

\* for tag, children in grouped.items()
RECURSIVE GroupedColumns(_, _, _, _)
GroupedColumns(row, prefix, el, tags) ==
    IF tags = <<>> THEN row
    ELSE LET cp == prefix \o Head(tags) \o Dot
             children == WithTag(el.kids, Head(tags))
             own == GroupOwnColumns(row, cp, children)
             gcs == Grandchildren(children)
         IN GroupedColumns(GrandColumns(own, cp, gcs, Dedup(TagsOf(gcs))),
                           prefix, el, Tail(tags))

\* for k, v in el.attrib.items(): row[f"{prefix}{k}"] = v, truncated
RECURSIVE OwnAttrColumns(_, _, _)
OwnAttrColumns(row, prefix, attrib) ==
    IF attrib = <<>> THEN row
    ELSE OwnAttrColumns(RowSet(row, prefix \o Head(attrib)[1],
                               TruncateValue(Head(attrib)[2])),
                        prefix, Tail(attrib))

RECURSIVE flatten_element(_, _)
\* for tag, child in single.items(): row.update(flatten_element(child, ...))
RECURSIVE SingleColumns(_, _, _, _)
SingleColumns(row, prefix, el, tags) ==
    IF tags = <<>> THEN row
    ELSE SingleColumns(
            RowUpdate(row, flatten_element(WithTag(el.kids, Head(tags))[1],
                                           prefix \o Head(tags) \o Dot)),
            prefix, el, Tail(tags))

flatten_element(el, prefix) ==
    LET attrs == OwnAttrColumns(<<>>, prefix, el.attrib)
        text == IF Strip(el.text) # <<>>
                THEN RowSet(attrs, prefix \o TextKey, Strip(el.text))
                ELSE attrs
        groups == GroupedColumns(text, prefix, el, grouped(el))
    IN SingleColumns(groups, prefix, el, single(el))

InitFlat ==
    /\ SanIdle
    /\ MapInit
    /\ ExtIdle
    /\ PushIdle
    /\ SeqIdle /\ RptIdle
    /\ tree \in FlatElems
    /\ tab = [pc |-> "new", row |-> <<>>]

\* row = flatten_element(el)
Flatten ==
    /\ tab.pc = "new"
    /\ tab' = [pc |-> "flat", row |-> flatten_element(tree, <<>>)]
    /\ UNCHANGED tree
    /\ UNCHANGED <<sanVars, mapVars, extVars, pushVars, seqVars, rptVars>>

NextFlat == Flatten

SpecFlat == InitFlat /\ [][NextFlat]_vars

\* ------------------------------------------- flattener: what is observed
Flattened == tab.pc = "flat"
Columns == [n \in 1..Len(tab.row) |-> tab.row[n][1]]
\* the row has column col with value v
RowHas(col, v) == \E n \in 1..Len(tab.row) : tab.row[n] = <<col, v>>
ColPos(col) == CHOOSE n \in 1..Len(tab.row) : tab.row[n][1] = col
StartsWith(col, p) == Len(col) >= Len(p) /\ SubSeq(col, 1, Len(p)) = p

\* the grouping rule for the instances els under the column prefix cp: one
\* column per attribute key of the union, and the text column when no
\* instance has attributes
GroupingRule(cp, els) ==
    /\ \A k \in Range(UnionKeys(els)) : RowHas(cp \o k, JoinedAttr(els, k))
    /\ (UnionKeys(els) = <<>> /\ TrimmedTexts(els) # <<>> =>
          RowHas(cp \o TextKey, JoinBar(TrimmedTexts(els))))

\* C25: for every child tag that occurs more than once under an element
\* there is one column per attribute key of the union of keys across the
\* instances, whose value is the " | "-join in document order of the values
\* of the instances that carry the key, and when no instance has attributes
\* one _text column joining the non-empty trimmed texts; the grandchildren
\* one level below such a group are combined by the same rule, including the
\* fall-back to text.
C25_GroupedChildrenAndGrandchildren ==
    Flattened =>
        \A tag \in Range(grouped(tree)) :
            LET cp == tag \o Dot
                children == WithTag(tree.kids, tag)
                gcs == Grandchildren(children)
            IN /\ GroupingRule(cp, children)
               /\ \A gt \in Range(TagsOf(gcs)) :
                     GroupingRule(cp \o gt \o Dot, WithTag(gcs, gt))

\* the columns derived from the children with tag t
ChildColumns(t) == {n \in 1..Len(tab.row) : StartsWith(tab.row[n][1], t \o Dot)}
FirstKid(t) == CHOOSE n \in 1..Len(tree.kids) :
                  tree.kids[n].tag = t /\ \A h \in 1..(n - 1) : tree.kids[h].tag # t

\* C26: in every row the columns are in first-seen order: the element's own
\* attributes first, then its text, then the columns derived from its
\* children in the document order of those children, whether a child tag is
\* singular or repeated.
C26_ColumnsInDocumentOrder ==
    Flattened =>
        LET na == Len(tree.attrib)
            nt == IF Strip(tree.text) # <<>> THEN 1 ELSE 0
            kidTags == Range(TagsOf(tree.kids))
        IN /\ Len(tab.row) >= na + nt
           /\ \A n \in 1..na : tab.row[n][1] = tree.attrib[n][1]
           /\ (nt = 1 => tab.row[na + 1][1] = TextKey)
           /\ \A n \in (na + nt + 1)..Len(tab.row) :
                 \E t \in kidTags : n \in ChildColumns(t)
           /\ \A t, u \in kidTags :
                 FirstKid(t) < FirstKid(u) =>
                    \A n \in ChildColumns(t), h \in ChildColumns(u) : n < h

\* ------------------------------------------------------ browser: report
\* most outcomes in one fg_push response of a run that fills the report
MaxOutcomes == 2

\* the cards that can be selected in a run that fills the report
RptCats == {"hosts", "net_groups"}
\* rptFilter: null, or one outcome kind
Filters == {"null", "ok", "skip", "err"}

\* outcomes as fg_push emits them
OutcomeSamples ==
    {OkResult(<<"a">>, <<"a", "#">>, 200),
     RefSkip(<<"x">>, <<"a">>),
     ErrResult(<<"a">>, <<"a", "#">>, "HTTP", 500)}
\* the bodies fg_push can answer with
PushResponses ==
    {ErrorResp("transport", 500), ErrorResp("Not connected to FortiGate", 400)}
    \cup {ResultsResp(rs) : rs \in SeqsUpTo(OutcomeSamples, MaxOutcomes)}

\* catData.results.push({status:'err', name:title, orig:'', reason:d.error})
CatErrorEntry(title, msg) ==
    [status |-> "err", name |-> title, orig |-> <<>>, reason |-> msg]

\* catData.results for a response d
CatResults(key, d) ==
    IF d.kind = "error" THEN <<CatErrorEntry(key, d.error)>> ELSE d.results

NoTotals == [ok |-> 0, sk |-> 0, err |-> 0]

TallyOkOnly(totals, r) ==
    IF r.status = "ok" THEN [totals EXCEPT !.ok = @ + 1]
    ELSE [totals EXCEPT !.err = @ + 1]

\* the if / else if / else chain on r.status: totalOk++, totalSk++, totalErr++
Tally(totals, r) ==
    IF r.status = "ok" THEN [totals EXCEPT !.ok = @ + 1]
    ELSE IF r.status = "skip" THEN [totals EXCEPT !.sk = @ + 1]
    ELSE [totals EXCEPT !.err = @ + 1]

RECURSIVE TallyAll(_, _)
TallyAll(totals, results) ==
    IF results = <<>> THEN totals
    ELSE TallyAll(Tally(totals, Head(results)), Tail(results))

\* totalOk, totalErr, totalSk after the response d of one category
TotalsAfter(totals, d) ==
    IF d.kind = "error" THEN [totals EXCEPT !.err = @ + 1]
    ELSE TallyAll(totals, d.results)

\* the fields of pushReport that doPush assigns when the loop has ended
Undefined == <<>>
ReportTotals(totals) ==
    [totalOk |-> totals.ok, totalErr |-> totals.err, totalSk |-> totals.sk,
     total |-> totals.ok + totals.err + totals.sk]

RptRunIdle ==
    [pc |-> "idle", sel |-> <<>>, k |-> 0, totals |-> NoTotals,
     timer |-> FALSE, overlay |-> FALSE]

InitRpt ==
    /\ SanIdle
    /\ MapInit
    /\ ExtIdle
    /\ PushIdle
    /\ SeqIdle /\ TabIdle
    /\ pushReport = <<>>
    /\ rptFilter = "null"
    /\ rpt = RptRunIdle

\* doPush up to the loop: sel, the empty-selection return, pushReport = {...}
RptStart ==
    /\ rpt.pc = "idle"
    /\ \E S \in SUBSET RptCats :
         IF selectedObjs(S) = <<>>
         THEN UNCHANGED <<pushReport, rpt>>
         ELSE /\ pushReport' = [categories |-> <<>>, totals |-> Undefined]
              /\ rpt' = [rpt EXCEPT !.pc = "loop", !.sel = selectedObjs(S),
                                    !.k = 1, !.totals = NoTotals]
    /\ UNCHANGED rptFilter
    /\ UNCHANGED <<sanVars, mapVars, extVars, pushVars, seqVars, tabVars>>

\* one iteration of the loop over sel: a category without items is passed
\* over; otherwise the response is tallied and stored
RptCategory ==
    /\ rpt.pc = "loop"
    /\ rpt.k <= Len(rpt.sel)
    /\ \/ /\ rpt' = [rpt EXCEPT !.k = @ + 1]
          /\ UNCHANGED pushReport
       \/ \E d \in PushResponses :
            /\ pushReport' =
                 [pushReport EXCEPT !.categories =
                     Append(@, [key |-> rpt.sel[rpt.k],
                                results |-> CatResults(rpt.sel[rpt.k], d)])]
            /\ rpt' = [rpt EXCEPT !.k = @ + 1,
                                  !.totals = TotalsAfter(@, d)]
    /\ UNCHANGED rptFilter
    /\ UNCHANGED <<sanVars, mapVars, extVars, pushVars, seqVars, tabVars>>

\* fetch or res.json() rejects: doPush ends there, the button stays disabled
RptAbort ==
    /\ rpt.pc = "loop"
    /\ rpt.k <= Len(rpt.sel)
    /\ rpt' = [rpt EXCEPT !.pc = "aborted"]
    /\ UNCHANGED <<pushReport, rptFilter>>
    /\ UNCHANGED <<sanVars, mapVars, extVars, pushVars, seqVars, tabVars>>

\* after the loop: the totals are assigned, the button is enabled again and
\* the timer that opens the report is set
RptFinish ==
    /\ rpt.pc = "loop"
    /\ rpt.k > Len(rpt.sel)
    /\ pushReport' = [pushReport EXCEPT !.totals = ReportTotals(rpt.totals)]
    /\ rpt' = [rpt EXCEPT !.pc = "idle", !.timer = TRUE]
    /\ UNCHANGED rptFilter
    /\ UNCHANGED <<sanVars, mapVars, extVars, pushVars, seqVars, tabVars>>

\* openReport, when the timer fires
openReport ==
    /\ rpt.timer
    /\ IF pushReport = <<>>
       THEN /\ rpt' = [rpt EXCEPT !.timer = FALSE]
            /\ UNCHANGED rptFilter
       ELSE /\ rptFilter' = "null"
            /\ rpt' = [rpt EXCEPT !.timer = FALSE, !.overlay = TRUE]
    /\ UNCHANGED pushReport
    /\ UNCHANGED <<sanVars, mapVars, extVars, pushVars, seqVars, tabVars>>

\* setFilter(f), from a card or a chip of the open report
setFilter ==
    /\ rpt.overlay
    /\ \E f \in Filters : rptFilter' = f
    /\ UNCHANGED <<pushReport, rpt>>
    /\ UNCHANGED <<sanVars, mapVars, extVars, pushVars, seqVars, tabVars>>

closeReport ==
    /\ rpt.overlay
    /\ rpt' = [rpt EXCEPT !.overlay = FALSE]
    /\ UNCHANGED <<pushReport, rptFilter>>
    /\ UNCHANGED <<sanVars, mapVars, extVars, pushVars, seqVars, tabVars>>

\* resetApp: pushReport = null
resetApp ==
    /\ pushReport # <<>>
    /\ rpt.pc # "loop"
    /\ ~rpt.overlay
    /\ pushReport' = <<>>
    /\ UNCHANGED <<rptFilter, rpt>>
    /\ UNCHANGED <<sanVars, mapVars, extVars, pushVars, seqVars, tabVars>>

NextRpt ==
    \/ RptStart \/ RptCategory \/ RptAbort \/ RptFinish
    \/ openReport \/ setFilter \/ closeReport \/ resetApp

SpecRpt == InitRpt /\ [][NextRpt]_vars

\* the stored outcome entries of all categories, and those of one status
RECURSIVE StoredFrom(_)
StoredFrom(categories) ==
    IF categories = <<>> THEN <<>>
    ELSE Head(categories).results \o StoredFrom(Tail(categories))
Stored == StoredFrom(pushReport.categories)
IsOk(r) == r.status = "ok"
IsSkip(r) == r.status = "skip"
IsErr(r) == r.status = "err"

\* the latest push run has run to its end
RunEnded == pushReport # <<>> /\ rpt.pc = "idle"

====
